---- MODULE Spec2Model ----
(***************************************************************************)
(* Direct-collocation tutorial (2_Direct_Collocation.ipynb): the three     *)
(* worked examples, run cell by cell in notebook order.  Each example      *)
(* builds an NLP on a casadi Opti object (variables, constraints,          *)
(* objective, initial guess), calls the solver and reads the result back.  *)
(*                                                                         *)
(* Opti objects live in the heap `optis`; the Python name `opti` holds the *)
(* index of the object it is bound to.  Real coefficients are kept as      *)
(* exact fractions <<numerator, denominator>>.  State-vector literals are  *)
(* kept as written in the source ("0.0", "np.pi", ...).                    *)
(***************************************************************************)
EXTENDS Integers, Sequences, FiniteSets, TLC

\* Largest segment count explored besides the ones written in the notebook.
MaxN == 3

\* Segment counts and horizons as written in the parameter cells.
NTrapz == 20
NHermite == 10
NCartPole == 25
TfBlockMove == 1
TfCartPole == 2
UMax == 10
DMax == 2

VARIABLES
    pc,       \* position in the notebook (next statement group to run)
    Ns,       \* segment counts the parameter cells may be set to
    tf, N, nx, nu,
    optis,    \* heap of Opti objects
    opti,     \* the object the name `opti` is bound to (0: unbound)
    X, V, U,  \* decision-variable handles
    t,        \* time grid
    J,        \* cost expression
    i,        \* loop variable
    it,       \* next value the running range() iterator yields
    simp,     \* Simpson coefficient vector
    f,        \* dynamics function
    fcalls,   \* grid columns at which the current f has been evaluated, in call order
    x_init, x_final, u_max, d_max,
    sol,      \* object whose solution `sol` refers to (0: none)
    sol_t, sol_x, sol_u,
    intro     \* names bound in the kernel of 1_CasADi_Intro.ipynb

vars == <<pc, Ns, tf, N, nx, nu, optis, opti, X, V, U, t, J, i, it, simp, f,
          fcalls, x_init, x_final, u_max, d_max, sol, sol_t, sol_x, sol_u,
          intro>>

----------------------------------------------------------------------------
\* Exact fractions.

Rat(n, d) == <<n, d>>

RatEq(a, b) == a[1] * b[2] = b[1] * a[2]

RatMul(a, b) == <<a[1] * b[1], a[2] * b[2]>>

RatDiv(a, b) == <<a[1] * b[2], a[2] * b[1]>>

RatSub(a, b) == <<a[1] * b[2] - b[1] * a[2], a[2] * b[2]>>

----------------------------------------------------------------------------
\* casadi Opti objects.

NoObj == [kind |-> "none"]

NoVar == [opti |-> 0, var |-> 0, rows |-> 0, cols |-> 0]

\* ca.Opti()
NewOpti ==
    [vars |-> <<>>, cons |-> <<>>, obj |-> NoObj, nmin |-> 0, init |-> <<>>,
     solver |-> "none", nsolve |-> 0, status |-> "building"]

\* Mutant: the two dimensions exchanged.
VariableTransposed(o, n, m) ==
    [o EXCEPT !.vars = Append(@, [rows |-> m, cols |-> n])]

\* opti.variable(n, m): a fresh n-by-m symbol registered with the object.
Variable(o, n, m) ==
    [o EXCEPT !.vars = Append(@, [rows |-> n, cols |-> m])]

Handle(id, o, n, m) ==
    [opti |-> id, var |-> Len(o.vars) + 1, rows |-> n, cols |-> m]

\* opti.subject_to(c)
SubjectTo(o, c) == [o EXCEPT !.cons = Append(@, c)]

\* opti.minimize(e): replaces the objective.
Minimize(o, e) == [o EXCEPT !.obj = e, !.nmin = @ + 1]

\* opti.set_initial(v, value)
SetInitial(o, v, value) ==
    [o EXCEPT !.init = Append(@, [var |-> v.var, value |-> value])]

\* Mutant: a negative index counted from one place too far.
IndexOffByOne(k, n) == IF k < 0 THEN n + k - 1 ELSE k

\* Python index into an axis of length n: negative indices count from the end.
Index(k, n) == IF k < 0 THEN n + k ELSE k

\* Mutant: the grid laid out from stop down to 0.
LinspaceDescending(stop, num) ==
    [k \in 0..(num - 1) |->
        IF num = 1 THEN Rat(0, 1) ELSE Rat((num - 1 - k) * stop, num - 1)]

\* Mutant: the endpoint left out (step stop/num).
LinspaceOpen(stop, num) == [k \in 0..(num - 1) |-> Rat(k * stop, num)]

\* np.linspace(0, stop, num): num points, step stop/(num-1), first 0, last stop.
Linspace(stop, num) ==
    [k \in 0..(num - 1) |-> IF num = 1 THEN Rat(0, 1) ELSE Rat(k * stop, num - 1)]

\* v[k] == value (trapezoidal cell: scalar entry k of a column vector;
\* Hermite-Simpson cells: column k of a matrix against a vector).
Pin(v, k, value) == [kind |-> "eq", var |-> v.var, at |-> k, value |-> value]

----------------------------------------------------------------------------

----------------------------------------------------------------------------
\* 1_CasADi_Intro.ipynb: one NLP, defined with the Opti stack and then
\* again in the standard form of ca.nlpsol.

\* Largest |x1|, |x2| and |p| at which the two formulations are compared.
MaxAbs == 2

\* Symbolic expressions.  Every casadi value is a matrix; a scalar is 1x1.
SymX == [op |-> "x"]
SymP == [op |-> "p"]
GetItem(a, k) == [op |-> "index", a |-> a, k |-> k]
Pow(a, n) == [op |-> "pow", a |-> a, n |-> n]
Sub(a, b) == [op |-> "sub", a |-> a, b |-> b]
Sum1(a) == [op |-> "sum1", a |-> a]
Vertcat(args) == [op |-> "vertcat", args |-> args]
NoExpr == [op |-> "undef"]

\* opti.bounded(lb, e, ub)  and  lhs >= rhs
Bounded(lb, e, ub) == [kind |-> "bounded", lb |-> lb, e |-> e, ub |-> ub]
Ge(lhs, rhs) == [kind |-> "ge", lhs |-> lhs, rhs |-> rhs]

\* np.array([v])  and  np.inf
Fin(v) == [inf |-> FALSE, v |-> v]
Inf == [inf |-> TRUE, v |-> 0]

RECURSIVE IntPow(_, _)
IntPow(b, n) == IF n = 0 THEN 1 ELSE b * IntPow(b, n - 1)

RECURSIVE SumSeq(_)
SumSeq(q) == IF q = <<>> THEN 0 ELSE Head(q) + SumSeq(Tail(q))

\* np.concatenate
RECURSIVE Concatenate(_)
Concatenate(arrays) ==
    IF arrays = <<>> THEN <<>> ELSE Head(arrays) \o Concatenate(Tail(arrays))

\* The column vector an expression takes at x = xv, p = pv.
RECURSIVE Eval(_, _, _)
RECURSIVE EvalAll(_, _, _)
Eval(e, xv, pv) ==
    CASE e.op = "x" -> xv
      [] e.op = "p" -> <<pv>>
      [] e.op = "index" -> <<Eval(e.a, xv, pv)[e.k + 1]>>
      [] e.op = "pow" ->
            LET a == Eval(e.a, xv, pv)
            IN  [j \in 1..Len(a) |-> IntPow(a[j], e.n)]
      [] e.op = "sub" ->
            LET a == Eval(e.a, xv, pv)
                b == Eval(e.b, xv, pv)
            IN  [j \in 1..Len(a) |-> a[j] - b[j]]
      [] e.op = "sum1" -> <<SumSeq(Eval(e.a, xv, pv))>>
      [] e.op = "vertcat" -> EvalAll(e.args, xv, pv)

EvalAll(es, xv, pv) ==
    IF es = <<>> THEN <<>>
    ELSE Eval(Head(es), xv, pv) \o EvalAll(Tail(es), xv, pv)

NoIntroOpti ==
    [obj |-> NoExpr, cons |-> <<>>, p |-> <<>>, init |-> <<>>,
     solver |-> "none", status |-> "none"]

NoArg == [lbg |-> <<>>, ubg |-> <<>>, x0 |-> <<>>, p |-> <<>>]

NoNlp == [x |-> "none", f |-> NoExpr, g |-> NoExpr, p |-> "none"]

\* A fresh kernel: no name of the intro notebook is bound.
NoIntro ==
    [opti |-> NoIntroOpti, x |-> "none", p |-> "none", p_opts |-> "none",
     s_opts |-> "none", x_guess |-> <<>>, sol |-> "none", x_sol |-> "none",
     f |-> NoExpr, g |-> <<>>, lbg |-> <<>>, ubg |-> <<>>, arg |-> NoArg,
     p_val |-> <<>>, nlp |-> NoNlp, S |-> "none", result |-> "none"]

\* The kernel before the first cell runs; ns: the segment counts the
\* parameter cells may be set to.
StartAt(ns, at) ==
    /\ pc = at
    /\ intro = NoIntro
    /\ Ns = ns
    /\ tf = 0 /\ N = 0 /\ nx = 0 /\ nu = 0
    /\ optis = <<>>
    /\ opti = 0
    /\ X = NoVar /\ V = NoVar /\ U = NoVar
    /\ t = <<>>
    /\ J = [kind |-> "undef"]
    /\ i = 0 /\ it = 0
    /\ simp = <<>>
    /\ f = [defined |-> FALSE, nx |-> 0, nu |-> 0, nout |-> 0]
    /\ fcalls = <<>>
    /\ x_init = <<>> /\ x_final = <<>> /\ u_max = 0 /\ d_max = 0
    /\ sol = 0 /\ sol_t = <<>> /\ sol_x = NoVar /\ sol_u = NoVar

Start(ns) == StartAt(ns, "trapz_params")

Init == Start(1..MaxN)

----------------------------------------------------------------------------
\* Block move, trapezoidal collocation.

\* The values the cell's  N = ...  line takes: the one written in the
\* notebook, or any of the small counts Ns.
Counts(written) == Ns \cup {written}

\* Mutant: the factor 0.5 dropped, tf/N.
TrapzCoefFullStep(tf_, N_) == RatDiv(Rat(tf_, 1), Rat(N_, 1))

\* 0.5*tf/N
TrapzCoef(tf_, N_) == RatDiv(RatMul(Rat(1, 2), Rat(tf_, 1)), Rat(N_, 1))

\* lhs[right] - lhs[left] == coef * (rhs[right] + rhs[left])
TrapzConstraint(lhs, rhs, left, right, coef) ==
    [kind |-> "trapz", lhs |-> lhs.var, rhs |-> rhs.var,
     left |-> left, right |-> right, coef |-> coef]

\* Mutant: the left control squared twice, coef * (U[left]**2 + U[left]**2).
TrapzCostTermLeftTwice(left, right, coef) ==
    [coef |-> coef, left |-> left, right |-> left]

\* coef * (U[left]**2 + U[right]**2)
TrapzCostTerm(left, right, coef) ==
    [coef |-> coef, left |-> left, right |-> right]

\* Mutant: the segment count checked, a count below 1 raising an error.
TrapzParamsChecked ==
    /\ pc = "trapz_params"
    /\ \E n \in Counts(NTrapz) :
          /\ N' = n
          /\ pc' = IF n < 1 THEN "error" ELSE "trapz_vars"
    /\ tf' = TfBlockMove
    /\ optis' = Append(optis, NewOpti)
    /\ opti' = Len(optis) + 1
    /\ UNCHANGED <<intro, Ns, nx, nu, X, V, U, t, J, i, it, simp, f, fcalls,
                   x_init, x_final, u_max, d_max, sol, sol_t, sol_x, sol_u>>

\* tf = 1.0; N = ...; opti = ca.Opti()
TrapzParams ==
    /\ pc = "trapz_params"
    /\ \E n \in Counts(NTrapz) : N' = n
    /\ tf' = TfBlockMove
    /\ optis' = Append(optis, NewOpti)
    /\ opti' = Len(optis) + 1
    /\ pc' = "trapz_vars"
    /\ UNCHANGED <<intro, Ns, nx, nu, X, V, U, t, J, i, it, simp, f, fcalls,
                   x_init, x_final, u_max, d_max, sol, sol_t, sol_x, sol_u>>

\* X = opti.variable(N+1); V = ...; U = ...; t = np.linspace(0, tf, N+1)
TrapzVariables ==
    /\ pc = "trapz_vars"
    /\ LET o0 == optis[opti]
           o1 == Variable(o0, N + 1, 1)
           o2 == Variable(o1, N + 1, 1)
           o3 == Variable(o2, N + 1, 1)
       IN  /\ X' = Handle(opti, o0, N + 1, 1)
           /\ V' = Handle(opti, o1, N + 1, 1)
           /\ U' = Handle(opti, o2, N + 1, 1)
           /\ optis' = [optis EXCEPT ![opti] = o3]
    /\ t' = Linspace(tf, N + 1)
    /\ pc' = "trapz_boundary"
    /\ UNCHANGED <<intro, Ns, tf, N, nx, nu, opti, J, i, it, simp, f, fcalls,
                   x_init, x_final, u_max, d_max, sol, sol_t, sol_x, sol_u>>

\* X[0] == 0, X[N] == 1, V[0] == 0, V[N] == 0
TrapzBoundary ==
    /\ pc = "trapz_boundary"
    /\ LET o1 == SubjectTo(optis[opti], Pin(X, Index(0, X.rows), <<"0">>))
           o2 == SubjectTo(o1, Pin(X, Index(N, X.rows), <<"1">>))
           o3 == SubjectTo(o2, Pin(V, Index(0, V.rows), <<"0">>))
           o4 == SubjectTo(o3, Pin(V, Index(N, V.rows), <<"0">>))
       IN  optis' = [optis EXCEPT ![opti] = o4]
    /\ pc' = "trapz_cost_init"
    /\ UNCHANGED <<intro, Ns, tf, N, nx, nu, opti, X, V, U, t, J, i, it, simp, f,
                   fcalls, x_init, x_final, u_max, d_max, sol, sol_t, sol_x,
                   sol_u>>

\* J = 0; for i in range(N):
TrapzCostInit ==
    /\ pc = "trapz_cost_init"
    /\ J' = [kind |-> "sum", terms |-> <<>>]
    /\ it' = 0
    /\ pc' = "trapz_loop"
    /\ UNCHANGED <<intro, Ns, tf, N, nx, nu, optis, opti, X, V, U, t, i, simp, f,
                   fcalls, x_init, x_final, u_max, d_max, sol, sol_t, sol_x,
                   sol_u>>

\* One pass of the loop body: the two collocation constraints of segment i
\* and its cost term.
TrapzSegment ==
    /\ pc = "trapz_loop"
    /\ it < N
    /\ i' = it
    /\ it' = it + 1
    /\ LET left  == i'
           right == i' + 1
           coef  == TrapzCoef(tf, N)
           o1 == SubjectTo(optis[opti], TrapzConstraint(X, V, left, right, coef))
           o2 == SubjectTo(o1, TrapzConstraint(V, U, left, right, coef))
       IN  /\ optis' = [optis EXCEPT ![opti] = o2]
           /\ J' = [J EXCEPT !.terms = Append(@, TrapzCostTerm(left, right, coef))]
    /\ UNCHANGED <<intro, pc, Ns, tf, N, nx, nu, opti, X, V, U, t, simp, f, fcalls,
                   x_init, x_final, u_max, d_max, sol, sol_t, sol_x, sol_u>>

\* Mutant: the objective handed over one pass early.
TrapzMinimizeEarly ==
    /\ pc = "trapz_loop"
    /\ it >= N - 1
    /\ optis' = [optis EXCEPT ![opti] = Minimize(@, J)]
    /\ pc' = "trapz_guess"
    /\ UNCHANGED <<intro, Ns, tf, N, nx, nu, opti, X, V, U, t, J, i, it, simp, f,
                   fcalls, x_init, x_final, u_max, d_max, sol, sol_t, sol_x,
                   sol_u>>

\* Mutant: the initial-guess cell left out, the solve cell run next.
TrapzMinimizeSkipGuess ==
    /\ pc = "trapz_loop"
    /\ it >= N
    /\ optis' = [optis EXCEPT ![opti] = Minimize(@, J)]
    /\ pc' = "trapz_solve"
    /\ UNCHANGED <<intro, Ns, tf, N, nx, nu, opti, X, V, U, t, J, i, it, simp, f,
                   fcalls, x_init, x_final, u_max, d_max, sol, sol_t, sol_x,
                   sol_u>>

\* The range is exhausted: opti.minimize(J)
TrapzMinimize ==
    /\ pc = "trapz_loop"
    /\ it >= N
    /\ optis' = [optis EXCEPT ![opti] = Minimize(@, J)]
    /\ pc' = "trapz_guess"
    /\ UNCHANGED <<intro, Ns, tf, N, nx, nu, opti, X, V, U, t, J, i, it, simp, f,
                   fcalls, x_init, x_final, u_max, d_max, sol, sol_t, sol_x,
                   sol_u>>

\* Mutant: the control guess drawn at random instead of np.zeros.
TrapzInitialGuessRandom ==
    /\ pc = "trapz_guess"
    /\ \E r \in {"0", "1"} :
         LET o1 == SetInitial(optis[opti], X,
                      [kind |-> "array", rows |-> Cardinality(DOMAIN t),
                       cols |-> 1, data |-> t])
             o2 == SetInitial(o1, V,
                      [kind |-> "full", rows |-> V.rows, cols |-> V.cols,
                       data |-> "1"])
             o3 == SetInitial(o2, U,
                      [kind |-> "full", rows |-> U.rows, cols |-> U.cols,
                       data |-> r])
         IN  optis' = [optis EXCEPT ![opti] = o3]
    /\ pc' = "trapz_solve"
    /\ UNCHANGED <<intro, Ns, tf, N, nx, nu, opti, X, V, U, t, J, i, it, simp, f,
                   fcalls, x_init, x_final, u_max, d_max, sol, sol_t, sol_x,
                   sol_u>>

\* opti.set_initial(X, t); (V, np.full(V.shape, 1)); (U, np.zeros(U.shape))
TrapzInitialGuess ==
    /\ pc = "trapz_guess"
    /\ LET o1 == SetInitial(optis[opti], X,
                    [kind |-> "array", rows |-> Cardinality(DOMAIN t),
                     cols |-> 1, data |-> t])
           o2 == SetInitial(o1, V,
                    [kind |-> "full", rows |-> V.rows, cols |-> V.cols,
                     data |-> "1"])
           o3 == SetInitial(o2, U,
                    [kind |-> "full", rows |-> U.rows, cols |-> U.cols,
                     data |-> "0"])
       IN  optis' = [optis EXCEPT ![opti] = o3]
    /\ pc' = "trapz_solve"
    /\ UNCHANGED <<intro, Ns, tf, N, nx, nu, opti, X, V, U, t, J, i, it, simp, f,
                   fcalls, x_init, x_final, u_max, d_max, sol, sol_t, sol_x,
                   sol_u>>

\* Mutant: a failed solve swallowed, the cell carrying on.
SolveIgnoreFailure(next) ==
    /\ \E converged \in BOOLEAN :
         /\ optis' = [optis EXCEPT ![opti] =
                        [@ EXCEPT !.solver = "ipopt", !.nsolve = @ + 1,
                                  !.status = IF converged THEN "solved" ELSE "failed"]]
         /\ sol' = IF converged THEN opti ELSE sol
         /\ pc' = next
    /\ UNCHANGED <<intro, Ns, tf, N, nx, nu, opti, X, V, U, t, J, i, it, simp, f,
                   fcalls, x_init, x_final, u_max, d_max, sol_t, sol_x, sol_u>>

\* Mutant: a failed solve returning a result object instead of raising.
SolveReturnsFailed(next) ==
    /\ \E converged \in BOOLEAN :
         /\ optis' = [optis EXCEPT ![opti] =
                        [@ EXCEPT !.solver = "ipopt", !.nsolve = @ + 1,
                                  !.status = IF converged THEN "solved" ELSE "failed"]]
         /\ sol' = opti
         /\ pc' = IF converged THEN next ELSE "error"
    /\ UNCHANGED <<intro, Ns, tf, N, nx, nu, opti, X, V, U, t, J, i, it, simp, f,
                   fcalls, x_init, x_final, u_max, d_max, sol_t, sol_x, sol_u>>

\* opti.solver('ipopt'); sol = opti.solve()
\* The solver either returns a solution or raises; a raised exception ends
\* the run of the notebook.
Solve(next) ==
    /\ \E converged \in BOOLEAN :
         /\ optis' = [optis EXCEPT ![opti] =
                        [@ EXCEPT !.solver = "ipopt", !.nsolve = @ + 1,
                                  !.status = IF converged THEN "solved" ELSE "failed"]]
         /\ sol' = IF converged THEN opti ELSE sol
         /\ pc' = IF converged THEN next ELSE "error"
    /\ UNCHANGED <<intro, Ns, tf, N, nx, nu, opti, X, V, U, t, J, i, it, simp, f,
                   fcalls, x_init, x_final, u_max, d_max, sol_t, sol_x, sol_u>>

\* sol_t = t; sol_x = sol.value(X); sol_u = sol.value(U); plot
Extract(next) ==
    /\ sol_t' = t
    /\ sol_x' = [opti |-> sol, var |-> X.var, rows |-> X.rows, cols |-> X.cols]
    /\ sol_u' = [opti |-> sol, var |-> U.var, rows |-> U.rows, cols |-> U.cols]
    /\ pc' = next
    /\ UNCHANGED <<intro, Ns, tf, N, nx, nu, optis, opti, X, V, U, t, J, i, it, simp,
                   f, fcalls, x_init, x_final, u_max, d_max, sol>>

TrapzSolve == pc = "trapz_solve" /\ Solve("trapz_extract")

TrapzExtract == pc = "trapz_extract" /\ Extract("hs_params")

----------------------------------------------------------------------------
\* Hermite-Simpson collocation: the statements the block-move and the
\* cart-pole cell share.

\* Mutant: the weights 4 and 2 exchanged.
SimpRawSwapped(n) == [k \in 0..(n - 1) |-> 2 * (k % 2) + 4 * ((k + 1) % 2)]

\* [4*(i%2)+2*((i+1)%2) for i in range(n)]
SimpRaw(n) == [k \in 0..(n - 1) |-> 4 * (k % 2) + 2 * ((k + 1) % 2)]

\* a[k] = v  on a one-dimensional array
SetItem(a, k, v) == [a EXCEPT ![Index(k, Cardinality(DOMAIN a))] = v]

\* Mutant: the first overwrite written one entry too far, simp[0][1]=1.
SimpSecondEntry(N_) == SetItem(SetItem(SimpRaw(2 * N_ + 1), 1, 1), -1, 1)

\* simp = np.array([[... for i in range(2*N+1)]]); simp[0][0]=1; simp[0][-1]=1
Simp(N_) == SetItem(SetItem(SimpRaw(2 * N_ + 1), 0, 1), -1, 1)

\* ca.dot(w, u[:,:]*u[:,:])
DotCost(w, u) == [kind |-> "dot", w |-> w, var |-> u.var]

\* X = opti.variable(nx, 2*N+1); U = opti.variable(nu, 2*N+1);
\* t = np.linspace(0, tf, 2*N+1)
HermiteVariables(next) ==
    /\ LET o0 == optis[opti]
           o1 == Variable(o0, nx, 2 * N + 1)
           o2 == Variable(o1, nu, 2 * N + 1)
       IN  /\ X' = Handle(opti, o0, nx, 2 * N + 1)
           /\ U' = Handle(opti, o1, nu, 2 * N + 1)
           /\ optis' = [optis EXCEPT ![opti] = o2]
    /\ t' = Linspace(tf, 2 * N + 1)
    /\ pc' = next
    /\ UNCHANGED <<intro, Ns, tf, N, nx, nu, opti, V, J, i, it, simp, f, fcalls,
                   x_init, x_final, u_max, d_max, sol, sol_t, sol_x, sol_u>>

\* f = derive_dynamics(): a function of (x: nx, u: nu) returning xdot.
HermiteDynamics(nout, next) ==
    /\ f' = [defined |-> TRUE, nx |-> nx, nu |-> nu, nout |-> nout]
    /\ fcalls' = <<>>
    /\ pc' = next
    /\ UNCHANGED <<intro, Ns, tf, N, nx, nu, optis, opti, X, V, U, t, J, i, it, simp,
                   x_init, x_final, u_max, d_max, sol, sol_t, sol_x, sol_u>>

\* simp = ...; J = ca.dot(simp, U[:,:]*U[:,:]); opti.minimize(J)
HermiteObjective(next) ==
    /\ simp' = Simp(N)
    /\ J' = DotCost(simp', U)
    /\ optis' = [optis EXCEPT ![opti] = Minimize(@, J')]
    /\ pc' = next
    /\ UNCHANGED <<intro, Ns, tf, N, nx, nu, opti, X, V, U, t, i, it, f, fcalls,
                   x_init, x_final, u_max, d_max, sol, sol_t, sol_x, sol_u>>

\* opti.subject_to( X[:,0] == first ); opti.subject_to( X[:,-1] == last );
\* for i in range(2*N+1):
HermiteBoundary(first, last, next) ==
    /\ LET o1 == SubjectTo(optis[opti], Pin(X, Index(0, X.cols), first))
           o2 == SubjectTo(o1, Pin(X, Index(-1, X.cols), last))
       IN  optis' = [optis EXCEPT ![opti] = o2]
    /\ it' = 0
    /\ pc' = next
    /\ UNCHANGED <<intro, Ns, tf, N, nx, nu, opti, X, V, U, t, J, i, simp, f,
                   fcalls, x_init, x_final, u_max, d_max, sol, sol_t, sol_x,
                   sol_u>>

\* Mutant: the left and the right column exchanged.
TripleReversed(k, ncols) == <<Index(k + 1, ncols), Index(k, ncols), Index(k - 1, ncols)>>

\* Mutant: the right-hand evaluation taken at the middle column.
TripleMidTwice(k, ncols) == <<Index(k - 1, ncols), Index(k, ncols), Index(k, ncols)>>

\* The columns one pass of the dynamics loop reads for loop value k:
\* X[:,k-1], X[:,k], X[:,k+1] (and the same columns of U).
Triple(k, ncols) == <<Index(k - 1, ncols), Index(k, ncols), Index(k + 1, ncols)>>

\* Mutant: the parity test inverted, the even columns taken as midpoints.
HermiteLoopStepEven ==
    /\ it < 2 * N + 1
    /\ i' = it
    /\ it' = it + 1
    /\ IF i' % 2 = 0
       THEN LET cols == <<Index(i' - 1, X.cols), Index(i', X.cols),
                          Index(i' + 1, X.cols)>>
            IN  IF \A k \in 1..3 : cols[k] \in 0..(X.cols - 1)
                THEN fcalls' = fcalls \o cols /\ pc' = pc
                ELSE fcalls' = fcalls /\ pc' = "error"
       ELSE fcalls' = fcalls /\ pc' = pc
    /\ UNCHANGED <<intro, Ns, tf, N, nx, nu, optis, opti, X, V, U, t, J, simp, f,
                   x_init, x_final, u_max, d_max, sol, sol_t, sol_x, sol_u>>

\* One pass of  for i in range(2*N+1): if i%2 != 0: ...
\* An odd i reads the left, middle and right columns and evaluates f at each;
\* the interpolation and collocation constraints are left as TODO comments,
\* so nothing is added to the problem.  A column outside the matrix raises.
HermiteLoopStep ==
    /\ it < 2 * N + 1
    /\ i' = it
    /\ it' = it + 1
    /\ IF i' % 2 # 0
       THEN LET cols == Triple(i', X.cols)
            IN  IF \A k \in 1..3 : cols[k] \in 0..(X.cols - 1)
                THEN fcalls' = fcalls \o cols /\ pc' = pc
                ELSE fcalls' = fcalls /\ pc' = "error"
       ELSE fcalls' = fcalls /\ pc' = pc
    /\ UNCHANGED <<intro, Ns, tf, N, nx, nu, optis, opti, X, V, U, t, J, simp, f,
                   x_init, x_final, u_max, d_max, sol, sol_t, sol_x, sol_u>>

\* The range is exhausted: opti.set_initial(X, guess);
\* opti.set_initial(U, np.zeros(U.shape))
HermiteInitialGuess(guess, next) ==
    /\ it >= 2 * N + 1
    /\ LET o1 == SetInitial(optis[opti], X, guess)
           o2 == SetInitial(o1, U,
                    [kind |-> "full", rows |-> U.rows, cols |-> U.cols,
                     data |-> "0"])
       IN  optis' = [optis EXCEPT ![opti] = o2]
    /\ pc' = next
    /\ UNCHANGED <<intro, Ns, tf, N, nx, nu, opti, X, V, U, t, J, i, it, simp, f,
                   fcalls, x_init, x_final, u_max, d_max, sol, sol_t, sol_x,
                   sol_u>>

----------------------------------------------------------------------------
\* Block move, Hermite-Simpson collocation.

\* Mutant: the cell without its  opti = ca.Opti()  line, the object of the
\* trapezoidal example kept.
HSParamsReuse ==
    /\ pc = "hs_params"
    /\ \E n \in Counts(NHermite) : N' = n
    /\ tf' = TfBlockMove
    /\ nx' = 2
    /\ nu' = 1
    /\ pc' = "hs_vars"
    /\ UNCHANGED <<intro, Ns, optis, opti, X, V, U, t, J, i, it, simp, f,
                   fcalls, x_init, x_final, u_max, d_max, sol, sol_t, sol_x,
                   sol_u>>

\* tf = 1.0; N = ...; nx = 2; nu = 1; opti = ca.Opti()
HSParams ==
    /\ pc = "hs_params"
    /\ \E n \in Counts(NHermite) : N' = n
    /\ tf' = TfBlockMove
    /\ nx' = 2
    /\ nu' = 1
    /\ optis' = Append(optis, NewOpti)
    /\ opti' = Len(optis) + 1
    /\ pc' = "hs_vars"
    /\ UNCHANGED <<intro, Ns, X, V, U, t, J, i, it, simp, f, fcalls,
                   x_init, x_final, u_max, d_max, sol, sol_t, sol_x, sol_u>>

HSVariables == pc = "hs_vars" /\ HermiteVariables("hs_dynamics")

\* xdot = ca.vertcat(x[1], u)
HSDynamics == pc = "hs_dynamics" /\ HermiteDynamics(1 + nu, "hs_objective")

HSObjective == pc = "hs_objective" /\ HermiteObjective("hs_boundary")

\* X[:,0] == np.array([0, 0]); X[:,-1] == np.array([1, 0])
HSBoundary ==
    pc = "hs_boundary" /\ HermiteBoundary(<<"0", "0">>, <<"1", "0">>, "hs_loop")

HSLoopStep == pc = "hs_loop" /\ HermiteLoopStep

\* np.vstack((t, np.full(t.shape, 1)))
HSInitialGuess ==
    /\ pc = "hs_loop"
    /\ HermiteInitialGuess(
          [kind |-> "vstack", rows |-> 2, cols |-> Cardinality(DOMAIN t),
           data |-> <<t, "1">>], "hs_solve")

HSSolve == pc = "hs_solve" /\ Solve("hs_extract")

HSExtract == pc = "hs_extract" /\ Extract("cp_params")

----------------------------------------------------------------------------
\* Cart-pole swing-up, Hermite-Simpson collocation.

\* Mutant: the fresh object bound to another name, `opti` left on the
\* block-move object.
CPParamsStaleName ==
    /\ pc = "cp_params"
    /\ \E n \in Counts(NCartPole) : N' = n
    /\ tf' = TfCartPole
    /\ nx' = 4
    /\ nu' = 1
    /\ x_init' = <<"0.0", "0.0", "0.0", "0.0">>
    /\ x_final' = <<"1.0", "np.pi", "0.0", "0.0">>
    /\ u_max' = UMax
    /\ d_max' = DMax
    /\ optis' = Append(optis, NewOpti)
    /\ pc' = "cp_vars"
    /\ UNCHANGED <<intro, Ns, opti, X, V, U, t, J, i, it, simp, f, fcalls,
                   sol, sol_t, sol_x, sol_u>>

\* tf = 2.0; N = ...; nx = 4; nu = 1; x_init, x_final; m1, m2, l, g;
\* u_max = 10.0; d_max = 2.0; opti = ca.Opti()
CPParams ==
    /\ pc = "cp_params"
    /\ \E n \in Counts(NCartPole) : N' = n
    /\ tf' = TfCartPole
    /\ nx' = 4
    /\ nu' = 1
    /\ x_init' = <<"0.0", "0.0", "0.0", "0.0">>
    /\ x_final' = <<"1.0", "np.pi", "0.0", "0.0">>
    /\ u_max' = UMax
    /\ d_max' = DMax
    /\ optis' = Append(optis, NewOpti)
    /\ opti' = Len(optis) + 1
    /\ pc' = "cp_vars"
    /\ UNCHANGED <<intro, Ns, X, V, U, t, J, i, it, simp, f, fcalls,
                   sol, sol_t, sol_x, sol_u>>

CPVariables == pc = "cp_vars" /\ HermiteVariables("cp_dynamics")

\* xdot = ca.vertcat(x[2:], ca.solve(M, ...)) with M a 2-by-2 matrix
CPDynamics == pc = "cp_dynamics" /\ HermiteDynamics((nx - 2) + 2, "cp_objective")

CPObjective == pc = "cp_objective" /\ HermiteObjective("cp_boundary")

\* X[:,0] == x_init; X[:,-1] == x_final
CPBoundary == pc = "cp_boundary" /\ HermiteBoundary(x_init, x_final, "cp_loop")

CPLoopStep == pc = "cp_loop" /\ HermiteLoopStep

\* The path constraints on state and control are left as TODO comments.
\* np.linspace(x_init, x_final, 2*N+1).T
CPInitialGuess ==
    /\ pc = "cp_loop"
    /\ HermiteInitialGuess(
          [kind |-> "linspace.T", rows |-> Len(x_init), cols |-> 2 * N + 1,
           data |-> <<x_init, x_final>>], "cp_solve")

CPSolve == pc = "cp_solve" /\ Solve("cp_extract")

CPExtract == pc = "cp_extract" /\ Extract("done")

----------------------------------------------------------------------------
Next ==
    \/ TrapzParams
    \/ TrapzVariables
    \/ TrapzBoundary
    \/ TrapzCostInit
    \/ TrapzSegment
    \/ TrapzMinimize
    \/ TrapzInitialGuess
    \/ TrapzSolve
    \/ TrapzExtract
    \/ HSParams
    \/ HSVariables
    \/ HSDynamics
    \/ HSObjective
    \/ HSBoundary
    \/ HSLoopStep
    \/ HSInitialGuess
    \/ HSSolve
    \/ HSExtract
    \/ CPParams
    \/ CPVariables
    \/ CPDynamics
    \/ CPObjective
    \/ CPBoundary
    \/ CPLoopStep
    \/ CPInitialGuess
    \/ CPSolve
    \/ CPExtract

Spec == Init /\ [][Next]_vars

\* The same notebook with the parameter cells also allowed  N = 0.
InitAnyN == Start(0..MaxN)

SpecAnyN == InitAnyN /\ [][Next]_vars

----------------------------------------------------------------------------
\* 1_CasADi_Intro.ipynb, the NLP cells.

UnchangedCollocation ==
    UNCHANGED <<Ns, tf, N, nx, nu, optis, opti, X, V, U, t, J, i, it, simp, f,
                fcalls, x_init, x_final, u_max, d_max, sol, sol_t, sol_x,
                sol_u>>

\* opti = ca.Opti(); x = opti.variable(2); p = opti.parameter();
\* opti.minimize(...); opti.subject_to(...) twice
IntroOptiDefine ==
    /\ pc = "intro_define"
    /\ intro' = [intro EXCEPT
          !.x = "opti.variable",
          !.p = "opti.parameter",
          !.opti = [NoIntroOpti EXCEPT
              !.status = "building",
              !.obj = Pow(Sub(GetItem(SymX, 1), Pow(GetItem(SymX, 0), 2)), 2),
              !.cons = <<Bounded(2, Sum1(Pow(SymX, 2)), 3),
                         Ge(Sum1(SymX), SymP)>>]]
    /\ pc' = "intro_set"
    /\ UnchangedCollocation

\* opti.set_value(p, 0); p_opts, s_opts; x_guess; opti.set_initial;
\* opti.solver('ipopt', p_opts, s_opts)
IntroOptiSet ==
    /\ pc = "intro_set"
    /\ intro' = [intro EXCEPT
          !.p_opts = "{}",
          !.s_opts = "{'print_level': 5}",
          !.x_guess = <<0, 0>>,
          !.opti = [@ EXCEPT !.p = <<0>>, !.init = <<0, 0>>,
                             !.solver = "ipopt"]]
    /\ pc' = "intro_solve"
    /\ UnchangedCollocation

\* sol = opti.solve(); x_sol = sol.value(x)
IntroOptiSolve ==
    /\ pc = "intro_solve"
    /\ \/ /\ intro' = [intro EXCEPT !.opti.status = "solved",
                                    !.sol = "opti", !.x_sol = "sol.value(x)"]
          /\ pc' = "intro_raw"
       \/ /\ intro' = [intro EXCEPT !.opti.status = "failed"]
          /\ pc' = "error"
    /\ UnchangedCollocation

\* x = ca.MX.sym('x', 2); p = ca.MX.sym("p"); f = ...; g, lbg, ubg, arg
IntroRawSymbols ==
    /\ pc = "intro_raw"
    /\ intro' = [intro EXCEPT
          !.x = "MX.sym", !.p = "MX.sym",
          !.f = Pow(Sub(GetItem(SymX, 1), Pow(GetItem(SymX, 0), 2)), 2),
          !.g = <<>>, !.lbg = <<>>, !.ubg = <<>>, !.arg = NoArg]
    /\ pc' = "intro_first"
    /\ UnchangedCollocation

\* g.append(ca.sum1(x**2)); lbg.append(np.array([2])); ubg.append(np.array([3]))
IntroRawFirst ==
    /\ pc = "intro_first"
    /\ intro' = [intro EXCEPT
          !.g = Append(@, Sum1(Pow(SymX, 2))),
          !.lbg = Append(@, <<Fin(2)>>),
          !.ubg = Append(@, <<Fin(3)>>)]
    /\ pc' = "intro_second"
    /\ UnchangedCollocation

\* Mutant: the second row written p - sum1(x).
IntroRawSecondSwapped ==
    /\ pc = "intro_second"
    /\ intro' = [intro EXCEPT
          !.g = Append(@, Sub(SymP, Sum1(SymX))),
          !.lbg = Append(@, <<Fin(0)>>),
          !.ubg = Append(@, <<Inf>>)]
    /\ pc' = "intro_arg"
    /\ UnchangedCollocation

\* g.append(ca.sum1(x) - p); lbg.append(np.array([0]));
\* ubg.append(np.array([np.inf]))
IntroRawSecond ==
    /\ pc = "intro_second"
    /\ intro' = [intro EXCEPT
          !.g = Append(@, Sub(Sum1(SymX), SymP)),
          !.lbg = Append(@, <<Fin(0)>>),
          !.ubg = Append(@, <<Inf>>)]
    /\ pc' = "intro_arg"
    /\ UnchangedCollocation

\* x_guess; p_val; arg['lbg'], arg['ubg'], arg['x0'], arg['p']
IntroRawArg ==
    /\ pc = "intro_arg"
    /\ intro' = [intro EXCEPT
          !.x_guess = <<0, 0>>,
          !.p_val = <<0>>,
          !.arg = [lbg |-> Concatenate(intro.lbg),
                   ubg |-> Concatenate(intro.ubg),
                   x0 |-> <<0, 0>>,
                   p |-> <<0>>]]
    /\ pc' = "intro_nlpsol"
    /\ UnchangedCollocation

\* g = ca.vertcat(*g); nlp = {...}; S = ca.nlpsol("S", "ipopt", nlp);
\* result = S(**arg); x_sol = result['x']
IntroRawSolve ==
    /\ pc = "intro_nlpsol"
    /\ LET g == Vertcat(intro.g)
           built == [intro EXCEPT
                        !.g = g,
                        !.nlp = [x |-> intro.x, f |-> intro.f, g |-> g,
                                 p |-> intro.p],
                        !.S = "ipopt"]
       IN  \/ /\ intro' = [built EXCEPT !.result = "S(**arg)",
                                        !.x_sol = "result['x']"]
              /\ pc' = "intro_done"
           \/ /\ intro' = built
              /\ pc' = "error"
    /\ UnchangedCollocation

\* The reader goes on to 2_Direct_Collocation.ipynb.
OpenCollocation ==
    /\ pc = "intro_done"
    /\ pc' = "trapz_params"
    /\ UNCHANGED intro
    /\ UnchangedCollocation

NextIntro ==
    \/ IntroOptiDefine
    \/ IntroOptiSet
    \/ IntroOptiSolve
    \/ IntroRawSymbols
    \/ IntroRawFirst
    \/ IntroRawSecond
    \/ IntroRawArg
    \/ IntroRawSolve
    \/ OpenCollocation
    \/ Next

\* The two notebooks read in order.
InitIntro == StartAt(1..MaxN, "intro_define")

SpecIntro == InitIntro /\ [][NextIntro]_vars

----------------------------------------------------------------------------
\* Properties.

\* The object the current example builds.  The notebook creates the
\* trapezoidal object first, the block-move Hermite-Simpson one second and
\* the cart-pole one third, rebinding N, tf and opti together.
Cur == optis[opti]

InTrapz == opti = 1

InHermite == opti \in {2, 3}

ConsOfKind(o, kind) == SelectSeq(o.cons, LAMBDA c : c.kind = kind)

\* The example is fully assembled once its initial guesses are set.
Assembled(o) == Len(o.init) > 0

\* C1: in both Hermite-Simpson examples the assembled problem holds, for each
\* odd midpoint index i of the 2N+1-point grid, one interpolation and one
\* collocation constraint over (i-1, i, i+1): N of each in total.
C1_HermiteConstraintsImposed ==
    (InHermite /\ Assembled(Cur)) =>
        /\ Len(ConsOfKind(Cur, "interpolation")) = N
        /\ Len(ConsOfKind(Cur, "collocation")) = N
        /\ \A m \in {k \in 0..(2 * N) : k % 2 = 1} :
              \A kind \in {"interpolation", "collocation"} :
                 \E n \in 1..Len(Cur.cons) :
                    /\ Cur.cons[n].kind = kind
                    /\ Cur.cons[n].left = m - 1
                    /\ Cur.cons[n].mid = m
                    /\ Cur.cons[n].right = m + 1

\* The n-th trapezoidal constraint ties lhs[right] - lhs[left] to
\* (h/2)(rhs[right] + rhs[left]) with h = tf/N.
IsTrapz(c, lhs, rhs, left, right) ==
    /\ c.kind = "trapz"
    /\ c.lhs = lhs.var /\ c.rhs = rhs.var
    /\ c.left = left /\ c.right = right
    /\ RatEq(RatMul(Rat(2, 1), c.coef), Rat(tf, N))

\* C2: trapezoidal transcription: after `it` passes of the loop the
\* collocation constraints are exactly, for each segment s in 0..it-1, the
\* pair X[s+1]-X[s] = (h/2)(V[s+1]+V[s]) and V[s+1]-V[s] = (h/2)(U[s+1]+U[s])
\* with h = tf/N, and the loop ends (the objective is set) only at it = N:
\* no segment skipped, none for index N, no other pair of indices tied.
C2_TrapzCollocation ==
    InTrapz =>
        LET cs == ConsOfKind(Cur, "trapz")
        IN  /\ Len(cs) = 2 * it
            /\ \A s \in 0..(it - 1) :
                  /\ IsTrapz(cs[2 * s + 1], X, V, s, s + 1)
                  /\ IsTrapz(cs[2 * s + 2], V, U, s, s + 1)
            /\ it <= N
            /\ (Cur.nmin >= 1 => it = N)

C2_Witness ==
    /\ InTrapz /\ Cur.nmin = 1 /\ N = 3
    /\ Len(ConsOfKind(Cur, "trapz")) = 6

\* C3: the Simpson coefficient vector built for 2N+1 grid points has first
\* and last entries 1, every other odd-indexed entry 4 and every other
\* even-indexed entry 2.
C3_SimpsonWeights ==
    (InHermite /\ Cur.nmin >= 1) =>
        /\ DOMAIN simp = 0..(2 * N)
        /\ simp[0] = 1
        /\ simp[2 * N] = 1
        /\ \A k \in 1..(2 * N - 1) :
              simp[k] = IF k % 2 = 1 THEN 4 ELSE 2

C3_Witness ==
    /\ InHermite /\ Cur.nmin >= 1 /\ N = 2
    /\ simp[0] = 1 /\ simp[1] = 4 /\ simp[2] = 2 /\ simp[3] = 4 /\ simp[4] = 1

\* The coefficient of U[k]**2 in an objective expression.
RECURSIVE SumWeight(_, _)
SumWeight(terms, k) ==
    IF terms = <<>> THEN Rat(0, 1)
    ELSE LET hd == Head(terms)
             n  == (IF hd.left = k THEN 1 ELSE 0) + (IF hd.right = k THEN 1 ELSE 0)
             r  == SumWeight(Tail(terms), k)
         IN  <<n * hd.coef[1] * r[2] + r[1] * hd.coef[2], hd.coef[2] * r[2]>>

CostWeight(e, k) ==
    IF e.kind = "dot" THEN Rat(e.w[k], 1) ELSE SumWeight(e.terms, k)

\* C4: the Hermite-Simpson objective handed to the solver weighs U[k]**2 by
\* (h/3) * w[k] with h = tf/(2N) and w the Simpson weights.
C4_SimpsonCostScaled ==
    (InHermite /\ Cur.nmin >= 1) =>
        \A k \in 0..(2 * N) :
            RatEq(CostWeight(Cur.obj, k),
                  RatMul(RatDiv(RatDiv(Rat(tf, 1), Rat(2 * N, 1)), Rat(3, 1)),
                         Rat(simp[k], 1)))

\* C5: trapezoidal cost: J starts from 0 and gains one term
\* (h/2)(U[s]**2 + U[s+1]**2), h = tf/N, per pass; the objective is unset
\* while the loop runs and, once set, is the sum of all N segment terms.
C5_TrapzCost ==
    InTrapz =>
        /\ (pc \in {"trapz_params", "trapz_vars", "trapz_boundary",
                    "trapz_cost_init", "trapz_loop"} => Cur.obj = NoObj)
        /\ (pc = "trapz_loop" =>
               /\ J.kind = "sum"
               /\ Len(J.terms) = it
               /\ \A s \in 0..(it - 1) :
                     /\ J.terms[s + 1].left = s
                     /\ J.terms[s + 1].right = s + 1
                     /\ RatEq(RatMul(Rat(2, 1), J.terms[s + 1].coef), Rat(tf, N)))
        /\ (Cur.obj # NoObj =>
               /\ Cur.nmin = 1
               /\ Cur.obj.kind = "sum"
               /\ Len(Cur.obj.terms) = N
               /\ \A s \in 0..(N - 1) :
                     /\ Cur.obj.terms[s + 1].left = s
                     /\ Cur.obj.terms[s + 1].right = s + 1
                     /\ RatEq(RatMul(Rat(2, 1), Cur.obj.terms[s + 1].coef),
                              Rat(tf, N)))

C5_Witness ==
    /\ InTrapz /\ N = 3 /\ Cur.obj # NoObj
    /\ Len(Cur.obj.terms) = 3 /\ Cur.obj.terms[3].right = 3

\* The set of entries of a sequence.
Range(q) == {q[n] : n \in 1..Len(q)}

\* C6: boundary conditions: the assembled problem of every example pins each
\* state component at grid index 0 to the initial state and at the last grid
\* index (N for trapezoidal, 2N for Hermite-Simpson) to the final state, and
\* pins no other grid index.
C6_BoundaryPins ==
    /\ (opti >= 1 /\ Assembled(Cur)) =>
          LET pins == ConsOfKind(Cur, "eq")
              last == IF InTrapz THEN N ELSE 2 * N
          IN  /\ \A n \in 1..Len(pins) : pins[n].at \in {0, last}
              /\ opti = 1 =>
                    /\ Len(pins) = 4
                    /\ Range(pins) =
                          {[kind |-> "eq", var |-> X.var, at |-> 0, value |-> <<"0">>],
                           [kind |-> "eq", var |-> X.var, at |-> last, value |-> <<"1">>],
                           [kind |-> "eq", var |-> V.var, at |-> 0, value |-> <<"0">>],
                           [kind |-> "eq", var |-> V.var, at |-> last, value |-> <<"0">>]}
              /\ opti = 2 =>
                    /\ Len(pins) = 2
                    /\ Range(pins) =
                          {[kind |-> "eq", var |-> X.var, at |-> 0,
                            value |-> <<"0", "0">>],
                           [kind |-> "eq", var |-> X.var, at |-> last,
                            value |-> <<"1", "0">>]}
              /\ opti = 3 =>
                    /\ Len(pins) = 2
                    /\ Range(pins) =
                          {[kind |-> "eq", var |-> X.var, at |-> 0,
                            value |-> <<"0.0", "0.0", "0.0", "0.0">>],
                           [kind |-> "eq", var |-> X.var, at |-> last,
                            value |-> <<"1.0", "np.pi", "0.0", "0.0">>]}
              /\ InHermite => \A n \in 1..Len(pins) : Len(pins[n].value) = nx

C6_Witness ==
    /\ opti = 3 /\ Assembled(Cur) /\ N = 2
    /\ \E n \in 1..Len(Cur.cons) : Cur.cons[n].kind = "eq" /\ Cur.cons[n].at = 4

\* C7: the assembled cart-pole problem bounds the control at every one of
\* the 2N+1 grid points by |u| <= u_max and the cart position (state row 0)
\* at every grid point by |x0| <= d_max.
C7_CartPolePathConstraints ==
    (opti = 3 /\ Assembled(Cur)) =>
        \A k \in 0..(2 * N) :
            /\ \E n \in 1..Len(Cur.cons) :
                  /\ Cur.cons[n].kind = "bounded"
                  /\ Cur.cons[n].var = U.var
                  /\ k \in Cur.cons[n].cols
                  /\ Cur.cons[n].lo = -u_max /\ Cur.cons[n].hi = u_max
            /\ \E n \in 1..Len(Cur.cons) :
                  /\ Cur.cons[n].kind = "bounded"
                  /\ Cur.cons[n].var = X.var /\ Cur.cons[n].row = 0
                  /\ k \in Cur.cons[n].cols
                  /\ Cur.cons[n].lo = -d_max /\ Cur.cons[n].hi = d_max

\* C8: trapezoidal scheme: X, V, U and the time grid each have exactly N+1
\* points; grid point k is at time k*tf/N, consecutive points tf/N apart,
\* the first at 0 and the last at tf.
C8_TrapzGrid ==
    (InTrapz /\ Len(Cur.vars) = 3) =>
        /\ \A v \in {X, V, U} :
              /\ v.rows = N + 1 /\ v.cols = 1
              /\ Cur.vars[v.var] = [rows |-> N + 1, cols |-> 1]
        /\ Cardinality({X.var, V.var, U.var}) = 3
        /\ DOMAIN t = 0..N
        /\ \A k \in 0..N : RatEq(t[k], Rat(k * tf, N))
        /\ \A k \in 0..(N - 1) : RatEq(RatSub(t[k + 1], t[k]), Rat(tf, N))
        /\ RatEq(t[0], Rat(0, 1))
        /\ RatEq(t[N], Rat(tf, 1))

C8_Witness ==
    /\ InTrapz /\ Len(Cur.vars) = 3 /\ N = 3
    /\ Cardinality(DOMAIN t) = 4 /\ RatEq(t[2], Rat(2, 3))

\* C9: Hermite-Simpson scheme: the state and control variables and the time
\* grid each have exactly 2N+1 columns/points.
C9_HermiteGrid ==
    (InHermite /\ Len(Cur.vars) = 2) =>
        /\ X.rows = nx /\ X.cols = 2 * N + 1
        /\ U.rows = nu /\ U.cols = 2 * N + 1
        /\ Cur.vars[X.var] = [rows |-> nx, cols |-> 2 * N + 1]
        /\ Cur.vars[U.var] = [rows |-> nu, cols |-> 2 * N + 1]
        /\ X.var # U.var
        /\ DOMAIN t = 0..(2 * N)

C9_Witness ==
    /\ opti = 3 /\ Len(Cur.vars) = 2 /\ N = 3
    /\ X.cols = 7 /\ Cardinality(DOMAIN t) = 7

Count(q, v) == Cardinality({n \in 1..Len(q) : q[n] = v})

\* C12 (as claimed): the dynamics function is evaluated exactly once per
\* grid point, 2N+1 times for a Hermite-Simpson grid of N segments.
C12_OncePerGridPoint ==
    (InHermite /\ Assembled(Cur)) =>
        /\ Len(fcalls) = 2 * N + 1
        /\ \A k \in 0..(2 * N) : Count(fcalls, k) = 1

\* C12 (amended): the dynamics function is evaluated three times per
\* segment (left, mid, right), 3N times in all: once at every midpoint and
\* at the two ends of the grid, twice at every interior knot.
C12_ThreePerSegment ==
    (InHermite /\ Assembled(Cur)) =>
        /\ Len(fcalls) = 3 * N
        /\ \A k \in 0..(2 * N) :
              Count(fcalls, k) = IF k % 2 = 0 /\ 0 < k /\ k < 2 * N THEN 2 ELSE 1

C12_Witness ==
    /\ opti = 2 /\ Assembled(Cur) /\ N = 2
    /\ Len(fcalls) = 6 /\ Count(fcalls, 2) = 2

\* C20: index safety of the Hermite-Simpson loop: after the iterator has
\* yielded 0..it-1 the loop has processed exactly the odd values below it,
\* reading for the m-th of them the columns 2m-2, 2m-1, 2m, all within
\* 0..2N (the left endpoint is never the wrapped index -1); no pass raises;
\* when the loop is over exactly N odd indices have been processed.
C20_HermiteIndexSafety ==
    /\ (InHermite /\ pc = "error") => Cur.nsolve >= 1
    /\ (InHermite /\ (pc \in {"hs_loop", "cp_loop"} \/ Assembled(Cur))) =>
          /\ it <= 2 * N + 1
          /\ Len(fcalls) = 3 * (it \div 2)
          /\ \A m \in 1..(it \div 2) :
                /\ fcalls[3 * m - 2] = 2 * m - 2
                /\ fcalls[3 * m - 1] = 2 * m - 1
                /\ fcalls[3 * m] = 2 * m
          /\ \A n \in 1..Len(fcalls) : fcalls[n] \in 0..(X.cols - 1)
          /\ X.cols = 2 * N + 1 /\ U.cols = 2 * N + 1
          /\ (Assembled(Cur) => it = 2 * N + 1 /\ Len(fcalls) = 3 * N)

C20_Witness ==
    /\ opti = 3 /\ pc = "cp_loop" /\ N = 3 /\ it = 7
    /\ fcalls = <<0, 1, 2, 2, 3, 4, 4, 5, 6>>

\* C13 (as claimed): building has no side effects: no step changes an
\* object that already exists.
C13_NoMutation ==
    [][\A k \in 1..Len(optis) : optis'[k] = optis[k]]_vars

\* C13 (amended): building works by mutation of the Opti object created
\* for the current example, and of nothing else: objects are only ever
\* added to the heap, and every object but the newest is left as it was.
C13_MutationConfined ==
    [][/\ Len(optis') >= Len(optis)
       /\ \A k \in 1..Len(optis) : k < Len(optis') => optis'[k] = optis[k]
       /\ opti' = Len(optis')]_vars

C13_Witness ==
    /\ opti = 2 /\ Len(optis) = 2
    /\ optis[1].nsolve = 1 /\ Len(optis[1].cons) > 0
    /\ Len(Cur.cons) = 2 /\ Cur.nmin = 1

ExtractPcs == {"trapz_extract", "hs_extract", "cp_extract"}

\* C14: each example is one synchronous sequence: the solver is invoked at
\* most once per problem, and only on a fully assembled one (variables,
\* constraints, objective set once, one initial guess per variable); values
\* are read only from a problem whose solve has returned a solution; nothing
\* is added to a problem once its solve has been invoked.
C14_AssembleSolveRead ==
    /\ [](\A k \in 1..Len(optis) :
            LET o == optis[k]
            IN  /\ o.nsolve <= 1
                /\ o.nsolve = 0 <=> o.status = "building"
                /\ o.nsolve = 1 =>
                      /\ o.solver = "ipopt"
                      /\ Len(o.vars) >= 2
                      /\ Len(o.cons) >= 2
                      /\ o.nmin = 1 /\ o.obj # NoObj
                      /\ Len(o.init) = Len(o.vars)
                      /\ \A v \in 1..Len(o.vars) :
                            \E g \in 1..Len(o.init) : o.init[g].var = v
                /\ (sol = k \/ sol_x.opti = k \/ sol_u.opti = k) =>
                      o.status = "solved")
    /\ [](pc \in ExtractPcs => Cur.status = "solved" /\ sol = opti)
    /\ [][\A k \in 1..Len(optis) :
            optis[k].nsolve >= 1 => optis'[k] = optis[k]]_vars

C14_Witness ==
    /\ pc = "done" /\ opti = 3 /\ N = 2
    /\ sol = 3 /\ sol_x.opti = 3 /\ sol_u.opti = 3
    /\ Cur.status = "solved" /\ Len(Cur.init) = 2

\* C15: a solve that does not converge ends the run: the problem has been
\* handed to the solver exactly once (no retry), nothing is read from it,
\* extraction is never reached for it, and no further step is taken.
C15_FailurePropagates ==
    /\ [](\A k \in 1..Len(optis) :
            optis[k].status = "failed" =>
               /\ pc = "error"
               /\ k = opti /\ k = Len(optis)
               /\ optis[k].nsolve = 1
               /\ sol # k /\ sol_x.opti # k /\ sol_u.opti # k)
    /\ [][pc # "error"]_vars

C15_Witness ==
    /\ pc = "error" /\ opti = 2
    /\ Cur.status = "failed" /\ Cur.nsolve = 1
    /\ optis[1].status = "solved" /\ sol_x.opti = 1

\* C16 (as claimed): a solve that does not converge hands the caller a
\* result for that solve (carrying the last iterate and a reason) instead of
\* aborting.
C16_FailedResultReturned ==
    \A k \in 1..Len(optis) :
        optis[k].status = "failed" => sol = k /\ pc # "error"

\* C16 (amended): a solve that does not converge raises out of
\* opti.solve(): the assignment to sol does not take place, so sol, sol_t,
\* sol_x and sol_u keep whatever they held before (nothing, or the previous
\* example's solution), and the run ends.
C16_FailureRaises ==
    [][(opti >= 1 /\ optis'[opti].status = "failed"
                  /\ optis[opti].status # "failed") =>
          /\ UNCHANGED <<sol, sol_t, sol_x, sol_u>>
          /\ pc' = "error"]_vars

C16_Witness ==
    /\ opti = 3 /\ Cur.status = "failed" /\ pc = "error"
    /\ sol = 2 /\ sol_x.opti = 2

\* The problem of example ex (1 trapezoidal, 2 block-move Hermite-Simpson,
\* 3 cart-pole) written out as a function of the segment count n and the
\* horizon T alone.
GridTimes(T, last) == [k \in 0..last |-> Rat(k * T, last)]

ExpectedVars(ex, n) ==
    IF ex = 1
    THEN [v \in 1..3 |-> [rows |-> n + 1, cols |-> 1]]
    ELSE <<[rows |-> IF ex = 2 THEN 2 ELSE 4, cols |-> 2 * n + 1],
           [rows |-> 1, cols |-> 2 * n + 1]>>

ExpectedCons(ex, n, T) ==
    IF ex = 1
    THEN [k \in 1..(4 + 2 * n) |->
            IF k <= 4
            THEN [kind |-> "eq", var |-> IF k <= 2 THEN 1 ELSE 2,
                  at |-> IF k % 2 = 1 THEN 0 ELSE n,
                  value |-> IF k = 2 THEN <<"1">> ELSE <<"0">>]
            ELSE LET s == (k - 5) \div 2
                     h == (k - 5) % 2
                 IN  [kind |-> "trapz", lhs |-> 1 + h, rhs |-> 2 + h,
                      left |-> s, right |-> s + 1, coef |-> <<T, 2 * n>>]]
    ELSE <<[kind |-> "eq", var |-> 1, at |-> 0,
            value |-> IF ex = 2 THEN <<"0", "0">>
                      ELSE <<"0.0", "0.0", "0.0", "0.0">>],
           [kind |-> "eq", var |-> 1, at |-> 2 * n,
            value |-> IF ex = 2 THEN <<"1", "0">>
                      ELSE <<"1.0", "np.pi", "0.0", "0.0">>]>>

ExpectedObj(ex, n, T) ==
    IF ex = 1
    THEN [kind |-> "sum",
          terms |-> [k \in 1..n |->
                       [coef |-> <<T, 2 * n>>, left |-> k - 1, right |-> k]]]
    ELSE [kind |-> "dot", var |-> 2,
          w |-> [k \in 0..(2 * n) |->
                   IF k \in {0, 2 * n} THEN 1 ELSE IF k % 2 = 1 THEN 4 ELSE 2]]

ExpectedInit(ex, n, T) ==
    IF ex = 1
    THEN <<[var |-> 1, value |-> [kind |-> "array", rows |-> n + 1, cols |-> 1,
                                  data |-> GridTimes(T, n)]],
           [var |-> 2, value |-> [kind |-> "full", rows |-> n + 1, cols |-> 1,
                                  data |-> "1"]],
           [var |-> 3, value |-> [kind |-> "full", rows |-> n + 1, cols |-> 1,
                                  data |-> "0"]]>>
    ELSE <<[var |-> 1,
            value |-> IF ex = 2
                      THEN [kind |-> "vstack", rows |-> 2, cols |-> 2 * n + 1,
                            data |-> <<GridTimes(T, 2 * n), "1">>]
                      ELSE [kind |-> "linspace.T", rows |-> 4,
                            cols |-> 2 * n + 1,
                            data |-> << <<"0.0", "0.0", "0.0", "0.0">>,
                                        <<"1.0", "np.pi", "0.0", "0.0">> >>]],
           [var |-> 2, value |-> [kind |-> "full", rows |-> 1,
                                  cols |-> 2 * n + 1, data |-> "0"]]>>

\* C17: determinism: what an example hands to the solver is a function of
\* the example, N and tf alone: the same specification always assembles the
\* same variables, constraints, objective and initial guess, under the same
\* solver setting.
C17_SameProblem ==
    (opti >= 1 /\ Assembled(Cur)) =>
        /\ Cur.vars = ExpectedVars(opti, N)
        /\ Cur.cons = ExpectedCons(opti, N, tf)
        /\ Cur.obj = ExpectedObj(opti, N, tf)
        /\ Cur.init = ExpectedInit(opti, N, tf)
        /\ Cur.nmin = 1
        /\ (Cur.nsolve >= 1 => Cur.solver = "ipopt")

C17_Witness ==
    /\ opti = 1 /\ N = 2 /\ Cur.nsolve = 1
    /\ Len(Cur.cons) = 8 /\ Len(Cur.init) = 3 /\ Len(Cur.obj.terms) = 2

RatLess(a, b) == a[1] * b[2] < b[1] * a[2]

RatAdd(a, b) == <<a[1] * b[2] + b[1] * a[2], a[2] * b[2]>>

\* C18: once built, the time grid of an example runs strictly increasing
\* from 0 to tf over N+1 points (trapezoidal) or 2N+1 points
\* (Hermite-Simpson, every odd index halfway between its even neighbours),
\* and it is not changed for the rest of the example.
C18_TimeGrid ==
    /\ []((opti >= 1 /\ Len(Cur.vars) >= 2) =>
            LET last == IF InTrapz THEN N ELSE 2 * N
            IN  /\ DOMAIN t = 0..last
                /\ RatEq(t[0], Rat(0, 1))
                /\ RatEq(t[last], Rat(tf, 1))
                /\ \A k \in 0..(last - 1) : RatLess(t[k], t[k + 1])
                /\ InHermite =>
                      \A k \in {j \in 1..(last - 1) : j % 2 = 1} :
                          RatEq(RatAdd(t[k - 1], t[k + 1]),
                                RatMul(Rat(2, 1), t[k])))
    /\ [][(opti' = opti /\ opti >= 1 /\ Len(Cur.vars) >= 2) => t' = t]_vars

C18_Witness ==
    /\ opti = 2 /\ N = 2 /\ pc = "hs_extract"
    /\ Cardinality(DOMAIN t) = 5 /\ RatEq(t[3], Rat(3, 4))

\* The integer points at which the two formulations are compared.
Sample == (0 - MaxAbs)..MaxAbs

AtMost(a, b) == b.inf \/ (~a.inf /\ a.v <= b.v)

\* Feasibility of x = xv under parameter pv, for the Opti object and for
\* the standard form  lbg <= g(x,p) <= ubg, row by row.
OptiHolds(c, xv, pv) ==
    IF c.kind = "bounded"
    THEN c.lb <= Eval(c.e, xv, pv)[1] /\ Eval(c.e, xv, pv)[1] <= c.ub
    ELSE Eval(c.lhs, xv, pv)[1] >= Eval(c.rhs, xv, pv)[1]

OptiFeasible(o, xv, pv) == \A k \in 1..Len(o.cons) : OptiHolds(o.cons[k], xv, pv)

RawFeasible(nlp, arg, xv, pv) ==
    LET gv == Eval(nlp.g, xv, pv)
    IN  \A r \in 1..Len(gv) :
            AtMost(arg.lbg[r], Fin(gv[r])) /\ AtMost(Fin(gv[r]), arg.ubg[r])

\* C19: once the standard-form NLP of the intro notebook is built it is the
\* NLP of the Opti formulation before it: equal objective and equal
\* feasible set at every sampled x and p, row 1 of g is x1^2 + x2^2 with
\* bounds [2, 3], row 2 is x1 + x2 - p with bounds [0, +inf], each bound at
\* the index of its row, and the parameter value 0 and guess [0, 0] of both.
C19_SameNLP ==
    intro.S = "ipopt" =>
        LET o == intro.opti
            nlp == intro.nlp
            arg == intro.arg
        IN  /\ \A x1 \in Sample, x2 \in Sample, pv \in Sample :
                  /\ Eval(nlp.f, <<x1, x2>>, pv) = Eval(o.obj, <<x1, x2>>, pv)
                  /\ Eval(nlp.f, <<x1, x2>>, pv) =
                        <<IntPow(x2 - IntPow(x1, 2), 2)>>
                  /\ RawFeasible(nlp, arg, <<x1, x2>>, pv)
                        <=> OptiFeasible(o, <<x1, x2>>, pv)
                  /\ RawFeasible(nlp, arg, <<x1, x2>>, pv)
                        <=> /\ 2 <= x1 * x1 + x2 * x2
                            /\ x1 * x1 + x2 * x2 <= 3
                            /\ x1 + x2 >= pv
            /\ nlp.g = Vertcat(<<Sum1(Pow(SymX, 2)), Sub(Sum1(SymX), SymP)>>)
            /\ arg.lbg = <<Fin(2), Fin(0)>>
            /\ arg.ubg = <<Fin(3), Inf>>
            /\ arg.p = <<0>> /\ o.p = arg.p
            /\ arg.x0 = <<0, 0>> /\ o.init = arg.x0
            /\ o.solver = intro.S

C19_Witness ==
    /\ pc = "intro_done"
    /\ intro.opti.status = "solved"
    /\ intro.result = "S(**arg)"
    /\ Len(intro.arg.lbg) = 2
    /\ RawFeasible(intro.nlp, intro.arg, <<1, 1>>, 2)
    /\ ~RawFeasible(intro.nlp, intro.arg, <<1, 1>>, 3)

\* The segments the dynamics loop has gone through, and the grid column
\* each took as its left end, its midpoint and its right end.
Segments == 1..(Len(fcalls) \div 3)

LeftOf(s) == fcalls[3 * s - 2]

MidOf(s) == fcalls[3 * s - 1]

RightOf(s) == fcalls[3 * s]

\* C21: the Hermite-Simpson segments tile the grid: N segments; every odd
\* index is the midpoint of exactly one segment and never an end; every
\* interior even index is the right end of exactly one segment and the left
\* end of the next; index 0 is only a left end and index 2N only a right
\* end; consecutive segments share exactly one column, and every column
\* lies in some segment.
C21_SegmentsTile ==
    (InHermite /\ Assembled(Cur)) =>
        /\ Len(fcalls) = 3 * N
        /\ Cardinality(Segments) = N
        /\ \A s \in Segments : LeftOf(s) < MidOf(s) /\ MidOf(s) < RightOf(s)
        /\ \A k \in 0..(2 * N) :
              LET asLeft == {s \in Segments : LeftOf(s) = k}
                  asMid == {s \in Segments : MidOf(s) = k}
                  asRight == {s \in Segments : RightOf(s) = k}
              IN  /\ asLeft \cup asMid \cup asRight # {}
                  /\ IF k % 2 = 1
                     THEN /\ Cardinality(asMid) = 1
                          /\ asLeft = {} /\ asRight = {}
                     ELSE /\ asMid = {}
                          /\ Cardinality(asLeft) = (IF k < 2 * N THEN 1 ELSE 0)
                          /\ Cardinality(asRight) = (IF k > 0 THEN 1 ELSE 0)
                          /\ (0 < k /\ k < 2 * N) =>
                                \E s \in asRight : s + 1 \in asLeft
        /\ \A s \in Segments :
              s + 1 \in Segments =>
                 Cardinality({LeftOf(s), MidOf(s), RightOf(s)}
                             \cap {LeftOf(s + 1), MidOf(s + 1), RightOf(s + 1)}) = 1

C21_Witness ==
    /\ opti = 3 /\ Assembled(Cur) /\ N = 3
    /\ RightOf(1) = 2 /\ LeftOf(2) = 2 /\ MidOf(3) = 5 /\ RightOf(3) = 6

\* w[0] + ... + w[k]
RECURSIVE SumTo(_, _)
SumTo(w, k) == IF k < 0 THEN 0 ELSE w[k] + SumTo(w, k - 1)

\* C22: the Simpson weight vector of a Hermite-Simpson example sums to 6N:
\* two end weights of 1, N midpoint weights of 4 and N-1 interior knot
\* weights of 2, so that (h/3) times the sum, h = tf/(2N), is exactly tf;
\* the two overwrites change entries 0 and 2N only and leave every midpoint
\* entry at 4, at N = 1 too.
C22_SimpsonSum ==
    (InHermite /\ Cur.nmin >= 1) =>
        LET last == 2 * N
            raw == SimpRaw(last + 1)
        IN  /\ N >= 1
            /\ DOMAIN simp = 0..last
            /\ SumTo(simp, last) = 6 * N
            /\ {k \in 0..last : simp[k] = 1} = {0, last}
            /\ {k \in 0..last : simp[k] = 4} = {k \in 0..last : k % 2 = 1}
            /\ Cardinality({k \in 0..last : simp[k] = 4}) = N
            /\ Cardinality({k \in 0..last : simp[k] = 2}) = N - 1
            /\ RatEq(RatMul(RatDiv(RatDiv(Rat(tf, 1), Rat(last, 1)), Rat(3, 1)),
                            Rat(SumTo(simp, last), 1)),
                     Rat(tf, 1))
            /\ \A k \in 0..last : simp[k] # raw[k] => k \in {0, last}
            /\ \A k \in 0..last : k % 2 = 1 => simp[k] = raw[k]

C22_Witness ==
    /\ opti = 2 /\ Cur.nmin = 1 /\ N = 1
    /\ simp = [k \in 0..2 |-> IF k = 1 THEN 4 ELSE 1]
    /\ SumTo(simp, 2) = 6

\* The terms of a sum in which U[k]**2 occurs.
TermsWith(terms, k) ==
    {n \in 1..Len(terms) : terms[n].left = k \/ terms[n].right = k}

\* The total coefficient of U[k]**2 over the terms numbered in S; a term
\* outside TermsWith(terms, k) contributes nothing.
RECURSIVE TotalWeight(_, _, _)
TotalWeight(terms, S, k) ==
    IF S = {} THEN Rat(0, 1)
    ELSE LET n == CHOOSE m \in S : TRUE
             occ == (IF terms[n].left = k THEN 1 ELSE 0)
                    + (IF terms[n].right = k THEN 1 ELSE 0)
         IN  RatAdd(RatMul(Rat(occ, 1), terms[n].coef),
                    TotalWeight(terms, S \ {n}, k))

\* C23: the trapezoidal cost accumulated segment by segment is the composite
\* trapezoid rule: with h = tf/N, U[0]**2 and U[N]**2 each occur in exactly
\* one term and weigh h/2 in all, every interior U[k]**2 occurs in exactly
\* two terms and weighs h.
C23_CompositeTrapezoid ==
    (InTrapz /\ Cur.obj # NoObj) =>
        /\ N >= 1
        /\ J = Cur.obj
        /\ \A k \in 0..N :
              IF k \in {0, N}
              THEN /\ Cardinality(TermsWith(J.terms, k)) = 1
                   /\ RatEq(TotalWeight(J.terms, TermsWith(J.terms, k), k),
                            RatDiv(RatDiv(Rat(tf, 1), Rat(N, 1)), Rat(2, 1)))
              ELSE /\ Cardinality(TermsWith(J.terms, k)) = 2
                   /\ RatEq(TotalWeight(J.terms, TermsWith(J.terms, k), k),
                            RatDiv(Rat(tf, 1), Rat(N, 1)))
        /\ \A n \in 1..Len(J.terms) : J.terms[n].left # J.terms[n].right

C23_Witness ==
    /\ InTrapz /\ N = 3 /\ Cur.nmin = 1
    /\ RatEq(TotalWeight(J.terms, TermsWith(J.terms, 0), 0), Rat(1, 6))
    /\ RatEq(TotalWeight(J.terms, TermsWith(J.terms, 2), 2), Rat(1, 3))
    /\ TermsWith(J.terms, 2) = {2, 3}

\* C24: run top to bottom, every example works on an Opti object of its
\* own: `opti` is only ever rebound to a newly created, empty object; an
\* object changes only while `opti` names it, so what a solve is handed was
\* all added since the object's creation, through handles of that object;
\* no object sees a second minimize or a second solve, and at the end each
\* of the three objects has had exactly one of each.
C24_FreshOptiPerExample ==
    /\ [](\A k \in 1..Len(optis) :
             /\ optis[k].nmin <= 1
             /\ optis[k].nsolve <= 1
             /\ optis[k].nsolve = 1 => optis[k].nmin = 1
             /\ k < opti => optis[k].nmin = 1 /\ optis[k].nsolve = 1)
    /\ []((opti >= 1 /\ Cur.nsolve = 1) =>
             /\ X.opti = opti /\ U.opti = opti
             /\ InTrapz => V.opti = opti
             /\ Len(Cur.vars) = (IF InTrapz THEN 3 ELSE 2)
             /\ Cur.vars[X.var].cols = X.cols /\ Cur.vars[U.var].cols = U.cols
             /\ \A n \in 1..Len(Cur.cons) :
                   Cur.cons[n].kind = "trapz" <=> (InTrapz /\ n > 4))
    /\ [](pc = "done" =>
             /\ Len(optis) = 3
             /\ \A k \in 1..3 : optis[k].nmin = 1 /\ optis[k].nsolve = 1)
    /\ [][/\ opti' # opti =>
                /\ opti' = Len(optis) + 1
                /\ optis' = Append(optis, NewOpti)
          /\ \A k \in 1..Len(optis) :
                optis'[k] # optis[k] => (k = opti /\ opti' = opti)]_vars

C24_Witness ==
    /\ pc = "done" /\ Len(optis) = 3 /\ opti = 3 /\ sol = 3
    /\ X.opti = 3 /\ V.opti = 1
    /\ optis[1].nsolve = 1 /\ optis[2].nsolve = 1 /\ optis[3].nsolve = 1
    /\ Len(optis[1].cons) > Len(optis[3].cons)
====
